---- MODULE Spec2Model ----
(***************************************************************************)
(* A model of src/src/main.cpp: the resource samplers (CPU ticks, memory,  *)
(* task count, load averages, uptime), the derivations (compute_cpu_usage, *)
(* format_uptime, format_memory_mib) and the refresh loop of main.         *)
(*                                                                         *)
(* Every component has a state variable of its own and a specification of  *)
(* its own; a specification leaves the other components' variables at      *)
(* Unused.  Text read from the /proc files is a sequence of whitespace-    *)
(* separated tokens, each token a sequence of one-character strings, so    *)
(* that the numeric extractions are computed digit by digit.  Text written *)
(* to the terminal is a TLA+ string built with \o.                         *)
(*                                                                         *)
(* std::uint64_t is scaled to U64Bits bits: all unsigned arithmetic is     *)
(* taken modulo 2^U64Bits.  A double is an exact rational [num, den]; the  *)
(* scaled integers are far below 2^53, where the casts to double are exact.*)
(***************************************************************************)
EXTENDS Integers, Sequences, FiniteSets, TLC

VARIABLES usage, cpu, mem, tasks, fmt, win, main

vars == <<usage, cpu, mem, tasks, fmt, win, main>>

\* The value of a component's variable in the specifications of the others.
Unused == "unused"

-----------------------------------------------------------------------------
(* Bounds of the model.                                                    *)

\* Width of the scaled std::uint64_t.
U64Bits == 12

\* Tick counters are drawn from 0..MaxTick and from the MaxTick+1 largest
\* values of the scaled std::uint64_t.
MaxTick == 2

U64Modulus == 2 ^ U64Bits

U64Max == U64Modulus - 1

\* A value of type std::uint64_t after an arithmetic operation.
U64(x) == x % U64Modulus

-----------------------------------------------------------------------------
(* struct CpuSnapshot and compute_cpu_usage.                               *)

CpuSnapshot(idle, total) == [idle_ticks |-> idle, total_ticks |-> total]

\* CpuSnapshot{}: both counters value-initialised.
ZeroSnapshot == CpuSnapshot(0, 0)

\* The double 0.0 returned by the guard.
ZeroDouble == [num |-> 0, den |-> 1]

\* compute_cpu_usage without the guard: the division is evaluated whatever
\* total_delta is.
compute_cpu_usage_unguarded(prev, curr) ==
    LET idle_delta == U64(curr.idle_ticks - prev.idle_ticks)
        total_delta == U64(curr.total_ticks - prev.total_ticks)
        active_delta == U64(total_delta - idle_delta)
    IN  [num |-> active_delta * 100, den |-> total_delta]

\* The double returned, as the exact quotient num/den; den = 0 stands for a
\* division evaluated with a zero divisor.
compute_cpu_usage(prev, curr) ==
    LET idle_delta == U64(curr.idle_ticks - prev.idle_ticks)
        total_delta == U64(curr.total_ticks - prev.total_ticks)
        active_delta == U64(total_delta - idle_delta)
    IN  IF total_delta = 0
        THEN ZeroDouble
        ELSE [num |-> active_delta * 100, den |-> total_delta]

TickValues == (0 .. MaxTick) \cup ((U64Max - MaxTick) .. U64Max)

Snapshots == {CpuSnapshot(i, t) : i \in TickValues, t \in TickValues}

UsageInit ==
    /\ usage \in {[prev |-> p, curr |-> c, called |-> FALSE, result |-> ZeroDouble] :
                    p \in Snapshots, c \in Snapshots}
    /\ cpu = Unused /\ mem = Unused /\ tasks = Unused
    /\ fmt = Unused /\ win = Unused /\ main = Unused

\* One call compute_cpu_usage(prev, curr).
ComputeUsage ==
    /\ ~usage.called
    /\ usage' = [usage EXCEPT !.called = TRUE,
                              !.result = compute_cpu_usage(usage.prev, usage.curr)]
    /\ UNCHANGED <<cpu, mem, tasks, fmt, win, main>>

UsageNext == ComputeUsage

SpecUsage == UsageInit /\ [][UsageNext]_vars

\* A double within [0, 100].
InPercentRange(r) == r.den > 0 /\ 0 <= r.num /\ r.num <= 100 * r.den

\* C1: compute_cpu_usage(prev, curr) is in [0, 100] whenever
\* curr.total_ticks >= prev.total_ticks and curr.idle_ticks >= prev.idle_ticks.
C1_UsageInRange ==
    (/\ usage.called
     /\ usage.curr.total_ticks >= usage.prev.total_ticks
     /\ usage.curr.idle_ticks >= usage.prev.idle_ticks)
        => InPercentRange(usage.result)

\* C6: compute_cpu_usage returns exactly 0.0 whenever the two total_ticks are
\* equal, whatever the idle counters are, and no call evaluates the division
\* with a zero divisor.
C6_ZeroWhenNoTicks ==
    usage.called =>
        /\ usage.result.den # 0
        /\ (usage.curr.total_ticks = usage.prev.total_ticks
                => usage.result = ZeroDouble)

\* C6's case: the totals are equal, the idle counters differ, the call returned.
C6_Witness ==
    /\ usage.called
    /\ usage.curr.total_ticks = usage.prev.total_ticks
    /\ usage.curr.idle_ticks # usage.prev.idle_ticks

-----------------------------------------------------------------------------
(* Input text: tokens and the numeric extractions of std::istream.         *)

\* The longest stat line drawn has MaxStatFields tokens after its label.
MaxStatFields == 11

Digits == {"0", "1", "2", "3", "4", "5", "6", "7", "8", "9"}

DigitValue(c) ==
    CASE c = "0" -> 0 [] c = "1" -> 1 [] c = "2" -> 2 [] c = "3" -> 3
      [] c = "4" -> 4 [] c = "5" -> 5 [] c = "6" -> 6 [] c = "7" -> 7
      [] c = "8" -> 8 [] c = "9" -> 9

\* std::isdigit(c) != 0, in the C locale.
isdigit(c) == c \in Digits

RECURSIVE DigitPrefixLen(_)
\* The number of leading decimal digits of a token.
DigitPrefixLen(tok) ==
    IF tok = <<>> \/ ~isdigit(Head(tok)) THEN 0 ELSE 1 + DigitPrefixLen(Tail(tok))

RECURSIVE DecimalValue(_)
\* The value of a sequence of decimal digits (unbounded).
DecimalValue(ds) ==
    IF ds = <<>> THEN 0
    ELSE 10 * DecimalValue(SubSeq(ds, 1, Len(ds) - 1)) + DigitValue(ds[Len(ds)])

\* A token stream: the tokens not yet consumed and the stream's failbit.
Stream(tokens) == [rest |-> tokens, fail |-> FALSE]

\* stream >> std::string: the next token, or failure at the end of input,
\* which leaves the string as it was (old).  [stream, value].
ExtractString(s, old) ==
    IF s.fail \/ s.rest = <<>>
    THEN [stream |-> [s EXCEPT !.fail = TRUE], value |-> old]
    ELSE [stream |-> [s EXCEPT !.rest = Tail(s.rest)], value |-> Head(s.rest)]

\* stream >> std::uint64_t: the leading digits of the next token are consumed
\* and converted; characters after them stay in the stream.  Without a
\* digit the extraction fails and stores 0; a value that does not fit is
\* stored as the largest std::uint64_t and the extraction fails.  At the end
\* of input, or on a stream that has already failed, the extraction fails
\* and the value is left as it was (old).
ExtractU64(s, old) ==
    IF s.fail \/ s.rest = <<>>
    THEN [stream |-> [s EXCEPT !.fail = TRUE], value |-> old]
    ELSE LET tok == Head(s.rest)
             n == DigitPrefixLen(tok)
             v == DecimalValue(SubSeq(tok, 1, n))
             left == SubSeq(tok, n + 1, Len(tok))
             after == IF left = <<>> THEN Tail(s.rest) ELSE <<left>> \o Tail(s.rest)
         IN  IF n = 0 THEN [stream |-> [s EXCEPT !.fail = TRUE], value |-> 0]
             ELSE IF v > U64Max
                  THEN [stream |-> [rest |-> after, fail |-> TRUE], value |-> U64Max]
                  ELSE [stream |-> [rest |-> after, fail |-> FALSE], value |-> v]

-----------------------------------------------------------------------------
(* sample_cpu, the /proc/stat branch.                                      *)

\* /proc/stat: whether it opens, whether it has a first line, and the
\* tokens of that line.
StatFile(open, has_line, tokens) == [open |-> open, has_line |-> has_line, line |-> tokens]

CpuLabel == <<"c", "p", "u">>

RECURSIVE ReadValues(_, _, _)
\* for (int i = 0; i < 10 && iss; ++i) iss >> values[i];  from index i on.
\* values is 1-indexed here: values[i + 1] is the source's values[i].
ReadValues(i, s, values) ==
    IF i < 10 /\ ~s.fail
    THEN LET e == ExtractU64(s, values[i + 1])
         IN  ReadValues(i + 1, e.stream, [values EXCEPT ![i + 1] = e.value])
    ELSE values

RECURSIVE SumU64(_, _)
\* total += values[i] for the first n values, in std::uint64_t arithmetic.
SumU64(values, n) ==
    IF n = 0 THEN 0 ELSE U64(SumU64(values, n - 1) + values[n])

\* sample_cpu that takes values[2] + values[3] for the idle ticks.
sample_cpu_shifted_idle(file, snapshot) ==
    IF ~file.open \/ ~file.has_line THEN [ok |-> FALSE, snapshot |-> snapshot]
    ELSE LET label == ExtractString(Stream(file.line), <<>>)
         IN  IF label.value # CpuLabel THEN [ok |-> FALSE, snapshot |-> snapshot]
             ELSE LET values == ReadValues(0, label.stream, [k \in 1 .. 10 |-> 0])
                  IN  [ok |-> TRUE,
                       snapshot |-> CpuSnapshot(U64(values[3] + values[4]),
                                                SumU64(values, 10))]

\* bool sample_cpu(CpuSnapshot &snapshot): [ok, snapshot], the value returned
\* and the caller's snapshot after the call.
sample_cpu(file, snapshot) ==
    IF ~file.open THEN [ok |-> FALSE, snapshot |-> snapshot]
    ELSE IF ~file.has_line THEN [ok |-> FALSE, snapshot |-> snapshot]
    ELSE LET label == ExtractString(Stream(file.line), <<>>)
         IN  IF label.value # CpuLabel THEN [ok |-> FALSE, snapshot |-> snapshot]
             ELSE LET values == ReadValues(0, label.stream, [k \in 1 .. 10 |-> 0])
                      total == SumU64(values, 10)
                      idle == U64(values[4] + values[5])
                  IN  [ok |-> TRUE, snapshot |-> CpuSnapshot(idle, total)]

\* The tokens that stand out in a stat line of sevens: a two-digit numeral,
\* a numeral large enough for the sum to wrap, and a non-numeric token.
StatOddTokens == {<<"1", "2">>, <<"4", "0", "9", "5">>, <<"x">>}

\* n fields, each the numeral 7, but for field i when i > 0 and field j
\* when j > 0.
StatFields(n, i, a, j, b) ==
    [k \in 1 .. n |-> IF k = j THEN b ELSE IF k = i THEN a ELSE <<"7">>]

\* Field lists of 0 to MaxStatFields tokens with at most two fields that
\* are not the numeral 7.
StatFieldLists ==
    UNION {{StatFields(n, i, a, j, b) :
                i \in 0 .. n, a \in StatOddTokens, j \in 0 .. n, b \in StatOddTokens} :
           n \in 0 .. MaxStatFields}

\* The /proc/stat contents drawn: unopenable, empty, an empty first line, a
\* per-core or unrelated first line, and aggregate lines.
StatFiles ==
    {StatFile(FALSE, FALSE, <<>>), StatFile(TRUE, FALSE, <<>>),
     StatFile(TRUE, TRUE, <<>>),
     StatFile(TRUE, TRUE, <<<<"c", "p", "u", "0">>, <<"7">>, <<"7">>>>),
     StatFile(TRUE, TRUE, <<<<"c", "p">>, <<"7">>>>),
     StatFile(TRUE, TRUE, <<<<"7">>, <<"7">>>>)}
    \cup {StatFile(TRUE, TRUE, <<CpuLabel>> \o f) : f \in StatFieldLists}

\* The caller's snapshot before the call: CpuSnapshot{} in main; a second
\* value tells an untouched snapshot from one reset to zero.
CallerSnapshots == {ZeroSnapshot, CpuSnapshot(5, 9)}

CpuInit ==
    /\ cpu \in {[file |-> f, before |-> b, called |-> FALSE, ok |-> FALSE,
                 snapshot |-> b] : f \in StatFiles, b \in CallerSnapshots}
    /\ usage = Unused /\ mem = Unused /\ tasks = Unused
    /\ fmt = Unused /\ win = Unused /\ main = Unused

\* One call sample_cpu(snapshot).
SampleCpu ==
    /\ ~cpu.called
    /\ LET r == sample_cpu(cpu.file, cpu.before)
       IN  cpu' = [cpu EXCEPT !.called = TRUE, !.ok = r.ok, !.snapshot = r.snapshot]
    /\ UNCHANGED <<usage, mem, tasks, fmt, win, main>>

CpuNext == SampleCpu

SpecCpu == CpuInit /\ [][CpuNext]_vars

\* A token that is a decimal numeral and nothing else.
IsNumeral(tok) == tok # <<>> /\ DigitPrefixLen(tok) = Len(tok)

\* The numeric fields that follow the label: the tokens after it up to the
\* first one that is no numeral, ten at most.
NumericFields(line) ==
    LET after == Tail(line)
        stops == {k \in 1 .. Len(after) : ~IsNumeral(after[k])}
        run == IF stops = {} THEN Len(after)
               ELSE (CHOOSE k \in stops : \A j \in stops : k <= j) - 1
    IN  SubSeq(after, 1, IF run > 10 THEN 10 ELSE run)

\* Field k (1-indexed) of the numeric fields, zero when it is missing.
FieldValue(fields, k) == IF k <= Len(fields) THEN DecimalValue(fields[k]) ELSE 0

RECURSIVE FieldSum(_, _)
FieldSum(fields, n) ==
    IF n = 0 THEN 0 ELSE FieldSum(fields, n - 1) + FieldValue(fields, n)

\* C4: sample_cpu fails, leaving the caller's snapshot unmodified, exactly
\* when /proc/stat cannot be opened, has no first line, or its first token is
\* not cpu; otherwise total_ticks is the sum of the up-to-10 numeric fields
\* that follow (missing ones zero) and idle_ticks is field 4 + field 5.
C4_SampleCpuContract ==
    cpu.called =>
        LET fails == \/ ~cpu.file.open
                     \/ ~cpu.file.has_line
                     \/ cpu.file.line = <<>>
                     \/ Head(cpu.file.line) # CpuLabel
            fields == NumericFields(cpu.file.line)
        IN  /\ cpu.ok = ~fails
            /\ fails => cpu.snapshot = cpu.before
            /\ ~fails =>
                /\ cpu.snapshot.total_ticks = U64(FieldSum(fields, 10))
                /\ cpu.snapshot.idle_ticks =
                        U64(FieldValue(fields, 4) + FieldValue(fields, 5))

\* C4's case: an aggregate line with fewer than 10 numeric fields, cut short
\* by a non-numeric token, was sampled into a snapshot that held other values.
C4_Witness ==
    /\ cpu.called /\ cpu.ok
    /\ cpu.before # ZeroSnapshot
    /\ Len(cpu.file.line) > 8
    /\ Len(NumericFields(cpu.file.line)) = 5
    /\ cpu.snapshot.idle_ticks = 19

-----------------------------------------------------------------------------
(* struct MemoryStatus and sample_memory, the /proc/meminfo branch.        *)

\* A meminfo file drawn has at most MaxMemLines lines.
MaxMemLines == 4

\* The factor from the kilobytes of /proc/meminfo to bytes.
KiB == 1024

MemoryStatus(total, available, valid) ==
    [total_bytes |-> total, available_bytes |-> available, valid |-> valid]

\* MemoryStatus status{}.
NoMemoryStatus == MemoryStatus(0, 0, FALSE)

MemTotalKey == <<"M", "e", "m", "T", "o", "t", "a", "l", ":">>

MemAvailableKey == <<"M", "e", "m", "A", "v", "a", "i", "l", "a", "b", "l", "e", ":">>

MemFreeKey == <<"M", "e", "m", "F", "r", "e", "e", ":">>

HugePagesKey == <<"H", "u", "g", "e", "P", "a", "g", "e", "s", "_", "T", "o", "t", "a", "l", ":">>

KbUnit == <<"k", "B">>

RECURSIVE ScanMeminfo(_, _, _, _)
\* while (meminfo >> key >> value >> unit) { ... }: the totals the loop
\* leaves, from stream s on.
ScanMeminfo(s, value, mem_total, mem_available) ==
    LET k == ExtractString(s, <<>>)
        v == ExtractU64(k.stream, value)
        u == ExtractString(v.stream, <<>>)
    IN  IF u.stream.fail
        THEN [mem_total |-> mem_total, mem_available |-> mem_available]
        ELSE LET total == IF k.value = MemTotalKey
                          THEN U64(v.value * KiB) ELSE mem_total
                 available == IF k.value # MemTotalKey /\ k.value = MemAvailableKey
                              THEN U64(v.value * KiB) ELSE mem_available
             IN  IF total # 0 /\ available # 0
                 THEN [mem_total |-> total, mem_available |-> available]
                 ELSE ScanMeminfo(u.stream, v.value, total, available)

\* sample_memory that reports valid whenever the file opens.
sample_memory_always_valid(file) ==
    IF ~file.open THEN NoMemoryStatus
    ELSE LET r == ScanMeminfo(Stream(file.tokens), 0, 0, 0)
         IN  MemoryStatus(r.mem_total, r.mem_available, TRUE)

\* MemoryStatus sample_memory().
sample_memory(file) ==
    IF ~file.open THEN NoMemoryStatus
    ELSE LET r == ScanMeminfo(Stream(file.tokens), 0, 0, 0)
         IN  IF r.mem_total # 0
             THEN MemoryStatus(r.mem_total, r.mem_available, TRUE)
             ELSE NoMemoryStatus

\* /proc/meminfo: whether it opens, and its tokens.
MemFile(open, tokens) == [open |-> open, tokens |-> tokens]

\* The values of a meminfo line: zero, a small one, and one whose
\* product with 1024 wraps to zero in the scaled std::uint64_t.
MemNumerals == {<<"0">>, <<"3">>, <<"4">>}

\* The lines of a meminfo file: key, value and unit, and the unit-less
\* line of a counter.
MemLines ==
    {<<key, v, KbUnit>> : key \in {MemTotalKey, MemAvailableKey}, v \in MemNumerals}
    \cup {<<MemFreeKey, <<"1">>, KbUnit>>, <<HugePagesKey, <<"0">>>>}

RECURSIVE Flatten(_)
Flatten(lines) == IF lines = <<>> THEN <<>> ELSE Head(lines) \o Flatten(Tail(lines))

MemFiles ==
    {MemFile(FALSE, <<>>)}
    \cup {MemFile(TRUE, Flatten(ls)) :
            ls \in UNION {[1 .. n -> MemLines] : n \in 0 .. MaxMemLines}}

MemInit ==
    /\ mem \in {[file |-> f, called |-> FALSE, status |-> NoMemoryStatus] : f \in MemFiles}
    /\ usage = Unused /\ cpu = Unused /\ tasks = Unused
    /\ fmt = Unused /\ win = Unused /\ main = Unused

\* One call sample_memory().
SampleMemory ==
    /\ ~mem.called
    /\ mem' = [mem EXCEPT !.called = TRUE, !.status = sample_memory(mem.file)]
    /\ UNCHANGED <<usage, cpu, tasks, fmt, win, main>>

MemNext == SampleMemory

SpecMem == MemInit /\ [][MemNext]_vars

RECURSIVE Triplets(_)
\* The key/value/unit triplets of a token sequence, up to the first three
\* tokens that are no triplet (no numeral in the middle, or fewer than three).
Triplets(tokens) ==
    IF Len(tokens) < 3 \/ ~IsNumeral(tokens[2]) THEN <<>>
    ELSE <<[key |-> tokens[1], kb |-> DecimalValue(tokens[2])]>>
            \o Triplets(SubSeq(tokens, 4, Len(tokens)))

\* The bytes of the last triplet with this key among the first n, 0 without one.
LastBytes(ts, n, key) ==
    LET at == {k \in 1 .. n : ts[k].key = key}
    IN  IF at = {} THEN 0
        ELSE U64(ts[CHOOSE k \in at : \A j \in at : j <= k].kb * KiB)

\* The triplets scanned: the scan stops after the first triplet at which the
\* last MemTotal and the last MemAvailable read are both nonzero.
ScannedCount(ts) ==
    LET full == {n \in 1 .. Len(ts) :
                    LastBytes(ts, n, MemTotalKey) # 0 /\ LastBytes(ts, n, MemAvailableKey) # 0}
    IN  IF full = {} THEN Len(ts) ELSE CHOOSE n \in full : \A m \in full : n <= m

\* A MemTotal entry was found while scanning.
MemTotalFound(file) ==
    /\ file.open
    /\ LET ts == Triplets(file.tokens)
       IN  \E k \in 1 .. ScannedCount(ts) : ts[k].key = MemTotalKey

\* C5 as stated: valid only if a MemTotal entry was found; with MemTotal
\* found and MemAvailable zero or missing the result is valid with
\* available_bytes = 0 and total_bytes = MemTotal * 1024; without MemTotal,
\* or with a file that cannot be opened, the result is invalid.
C5_ValidIffMemTotalFound ==
    mem.called =>
        LET ts == Triplets(mem.file.tokens)
            n == ScannedCount(ts)
        IN  /\ mem.status.valid => MemTotalFound(mem.file)
            /\ ~MemTotalFound(mem.file) => ~mem.status.valid
            /\ (MemTotalFound(mem.file) /\ LastBytes(ts, n, MemAvailableKey) = 0) =>
                    /\ mem.status.valid
                    /\ mem.status.available_bytes = 0
                    /\ mem.status.total_bytes = LastBytes(ts, n, MemTotalKey)

\* C5 amended: the result is valid exactly when the file opens and the last
\* MemTotal entry scanned gives a nonzero number of bytes; then total_bytes
\* is that number and available_bytes is that of the last MemAvailable entry
\* scanned, 0 when there is none or it is zero.
C5_ValidIffMemTotalNonzero ==
    mem.called =>
        LET ts == Triplets(mem.file.tokens)
            n == ScannedCount(ts)
            total == LastBytes(ts, n, MemTotalKey)
        IN  /\ mem.status.valid = (mem.file.open /\ total # 0)
            /\ mem.status.valid =>
                    /\ mem.status.total_bytes = total
                    /\ mem.status.available_bytes = LastBytes(ts, n, MemAvailableKey)
            /\ ~mem.status.valid => mem.status = NoMemoryStatus

\* C5's case: MemTotal is found with a nonzero value after a MemAvailable
\* of zero, and the sample is valid with no available bytes.
C5_Witness ==
    /\ mem.called /\ mem.status.valid
    /\ mem.status.available_bytes = 0
    /\ mem.status.total_bytes = 3 * KiB
    /\ \E k \in 1 .. Len(mem.file.tokens) : mem.file.tokens[k] = MemAvailableKey

-----------------------------------------------------------------------------
(* struct TaskSummary and sample_tasks, the /proc branch.                  *)

\* A /proc listing drawn has at most MaxProcEntries entries.
MaxProcEntries == 3

TaskSummary(total, valid) == [total |-> total, valid |-> valid]

\* TaskSummary summary{}.
NoTaskSummary == TaskSummary(0, FALSE)

\* std::all_of(name.begin(), name.end(), isdigit).
AllDigits(name) == \A k \in 1 .. Len(name) : isdigit(name[k])

\* The body of the loop without the is_directory test.
CountEntryAnyType(entry, count) ==
    IF entry.name # <<>> /\ AllDigits(entry.name) THEN count + 1 ELSE count

\* The body of the loop for one entry: the count after it.
CountEntry(entry, count) ==
    IF ~entry.is_directory THEN count
    ELSE IF entry.name # <<>> /\ AllDigits(entry.name) THEN count + 1 ELSE count

RECURSIVE CountEntries(_, _)
\* The range-for over the first n entries of the directory.
CountEntries(entries, n) ==
    IF n = 0 THEN 0 ELSE CountEntry(entries[n], CountEntries(entries, n - 1))

\* TaskSummary sample_tasks().  With dir.throws, std::filesystem throws
\* after the iteration has handled dir.handled entries (0: when the iterator
\* is constructed) and the catch clause leaves summary as constructed.
sample_tasks(dir) ==
    IF dir.throws THEN NoTaskSummary
    ELSE TaskSummary(CountEntries(dir.entries, Len(dir.entries)), TRUE)

ProcEntry(name, is_directory) == [name |-> name, is_directory |-> is_directory]

\* The entries a listing is drawn from: numeric directories, a numeric name
\* that is no directory, and directories whose name is not numeric.
ProcEntries ==
    {ProcEntry(<<"1">>, TRUE), ProcEntry(<<"4", "2">>, TRUE), ProcEntry(<<"4", "2">>, FALSE),
     ProcEntry(<<"s", "e", "l", "f">>, TRUE), ProcEntry(<<"1", "a">>, TRUE),
     ProcEntry(<<>>, TRUE)}

ProcDirs ==
    UNION {{[entries |-> es, throws |-> FALSE, handled |-> n] :
                es \in [1 .. n -> ProcEntries]}
           \cup {[entries |-> es, throws |-> TRUE, handled |-> h] :
                    es \in [1 .. n -> ProcEntries], h \in 0 .. n} :
           n \in 0 .. MaxProcEntries}

TasksInit ==
    /\ tasks \in {[dir |-> d, called |-> FALSE, summary |-> NoTaskSummary] : d \in ProcDirs}
    /\ usage = Unused /\ cpu = Unused /\ mem = Unused
    /\ fmt = Unused /\ win = Unused /\ main = Unused

\* One call sample_tasks().
SampleTasks ==
    /\ ~tasks.called
    /\ tasks' = [tasks EXCEPT !.called = TRUE, !.summary = sample_tasks(tasks.dir)]
    /\ UNCHANGED <<usage, cpu, mem, fmt, win, main>>

TasksNext == SampleTasks

SpecTasks == TasksInit /\ [][TasksNext]_vars

\* A name that is non-empty and all decimal digits.
NumericName(name) == name # <<>> /\ \A k \in 1 .. Len(name) : name[k] \in Digits

\* C7 as stated: when the enumeration completes without error the result is
\* valid and total is the number of entries with a numeric name.
C7_CountsNumericNames ==
    (tasks.called /\ ~tasks.dir.throws) =>
        /\ tasks.summary.valid
        /\ tasks.summary.total =
             Cardinality({k \in 1 .. Len(tasks.dir.entries) :
                            NumericName(tasks.dir.entries[k].name)})

\* C7 amended: when the enumeration completes without error the result is
\* valid and total is the number of entries that are directories and have a
\* numeric name; entries with a non-digit character are never counted.
C7_CountsNumericDirectories ==
    (tasks.called /\ ~tasks.dir.throws) =>
        /\ tasks.summary.valid
        /\ tasks.summary.total =
             Cardinality({k \in 1 .. Len(tasks.dir.entries) :
                            /\ tasks.dir.entries[k].is_directory
                            /\ NumericName(tasks.dir.entries[k].name)})

\* C7's case: a listing with a numeric directory, a non-numeric directory
\* and a numeric entry that is no directory was counted as one task.
C7_Witness ==
    /\ tasks.called /\ tasks.summary.valid /\ tasks.summary.total = 1
    /\ \E i, j, k \in 1 .. Len(tasks.dir.entries) :
        /\ tasks.dir.entries[i] = ProcEntry(<<"1">>, TRUE)
        /\ tasks.dir.entries[j] = ProcEntry(<<"s", "e", "l", "f">>, TRUE)
        /\ tasks.dir.entries[k] = ProcEntry(<<"4", "2">>, FALSE)

-----------------------------------------------------------------------------
(* Output text: std::ostringstream and format_uptime.                      *)

\* Uptimes of 0 to MaxDays days are drawn, and two of many days.
MaxDays == 2

DigitChar(d) ==
    CASE d = 0 -> "0" [] d = 1 -> "1" [] d = 2 -> "2" [] d = 3 -> "3"
      [] d = 4 -> "4" [] d = 5 -> "5" [] d = 6 -> "6" [] d = 7 -> "7"
      [] d = 8 -> "8" [] d = 9 -> "9"

RECURSIVE Decimal(_)
\* The decimal numeral of a natural number.
Decimal(n) == IF n < 10 THEN DigitChar(n) ELSE Decimal(n \div 10) \o DigitChar(n % 10)

RECURSIVE Repeat(_, _)
Repeat(c, n) == IF n <= 0 THEN "" ELSE c \o Repeat(c, n - 1)

\* std::ostringstream oss: the text so far, the field width and the fill.
NewOStream == [text |-> "", width |-> 0, fill |-> " "]

\* oss << std::setw(w)
SetW(oss, w) == [oss EXCEPT !.width = w]

\* oss << std::setfill(c)
SetFill(oss, c) == [oss EXCEPT !.fill = c]

\* oss << text: padded on the left to the field width, which is then reset.
Put(oss, text) ==
    [oss EXCEPT !.text = @ \o Repeat(oss.fill, oss.width - Len(text)) \o text,
                !.width = 0]

\* oss << n for an unsigned integer.
PutUnsigned(oss, n) == Put(oss, Decimal(n))

SecondsPerMinute == 60

SecondsPerHour == 3600

SecondsPerDay == 86400

\* format_uptime with the plural taken from one day on.
format_uptime_plural_from_one(seconds) ==
    IF seconds < SecondsPerMinute THEN Decimal(seconds) \o "s"
    ELSE LET days == seconds \div SecondsPerDay
             hours == (seconds % SecondsPerDay) \div SecondsPerHour
             minutes == (seconds % SecondsPerHour) \div SecondsPerMinute
             o1 == IF days > 0 THEN Put(PutUnsigned(NewOStream, days), " days, ")
                   ELSE NewOStream
             o2 == Put(PutUnsigned(SetFill(SetW(o1, 2), "0"), hours), ":")
         IN  PutUnsigned(SetFill(SetW(o2, 2), "0"), minutes).text

\* std::string format_uptime(std::uint64_t seconds).
format_uptime(seconds) ==
    IF seconds < 60
    THEN Put(PutUnsigned(NewOStream, seconds), "s").text
    ELSE LET days == seconds \div SecondsPerDay
             seconds1 == seconds % SecondsPerDay
             hours == seconds1 \div SecondsPerHour
             seconds2 == seconds1 % SecondsPerHour
             minutes == seconds2 \div SecondsPerMinute
             o1 == IF days > 0
                   THEN LET a == Put(PutUnsigned(NewOStream, days), " day")
                            b == IF days > 1 THEN Put(a, "s") ELSE a
                        IN  Put(b, ", ")
                   ELSE NewOStream
             o2 == Put(PutUnsigned(SetFill(SetW(o1, 2), "0"), hours), ":")
             o3 == PutUnsigned(SetFill(SetW(o2, 2), "0"), minutes)
         IN  o3.text

\* The uptimes drawn: every count of seconds below two minutes, and days,
\* hours, minutes and seconds at and around the ends of their ranges.
UptimeValues ==
    (0 .. 2 * SecondsPerMinute)
    \cup {d * SecondsPerDay + h * SecondsPerHour + m * SecondsPerMinute + x :
            d \in (0 .. MaxDays) \cup {10, 365}, h \in {0, 1, 9, 10, 23},
            m \in {0, 1, 9, 10, 59}, x \in {0, 59}}

FmtInit ==
    /\ fmt \in {[seconds |-> x, called |-> FALSE, text |-> ""] : x \in UptimeValues}
    /\ usage = Unused /\ cpu = Unused /\ mem = Unused
    /\ tasks = Unused /\ win = Unused /\ main = Unused

\* One call format_uptime(seconds).
FormatUptime ==
    /\ ~fmt.called
    /\ fmt' = [fmt EXCEPT !.called = TRUE, !.text = format_uptime(fmt.seconds)]
    /\ UNCHANGED <<usage, cpu, mem, tasks, win, main>>

FmtNext == FormatUptime

SpecFmt == FmtInit /\ [][FmtNext]_vars

\* A number below 100 as two digits.
TwoDigits(n) == DigitChar(n \div 10) \o DigitChar(n % 10)

\* The days prefix of C8.
DaysPrefix(d) ==
    IF d = 0 THEN ""
    ELSE IF d = 1 THEN Decimal(d) \o " day, " ELSE Decimal(d) \o " days, "

\* C8: format_uptime(s) is "<s>s" for s < 60 and otherwise the days prefix
\* (absent for d = 0, "<d> day, " for d = 1, "<d> days, " for d > 1) followed
\* by HH:MM, with d = s div 86400, HH = (s mod 86400) div 3600 and
\* MM = (s mod 3600) div 60 on two digits; so 60 gives "00:01", 90000 gives
\* "1 day, 01:00" and 176400 gives "2 days, 01:00".
C8_FormatUptime ==
    fmt.called =>
        LET x == fmt.seconds
        IN  /\ x < 60 => fmt.text = Decimal(x) \o "s"
            /\ x >= 60 => fmt.text = DaysPrefix(x \div 86400)
                                        \o TwoDigits((x % 86400) \div 3600) \o ":"
                                        \o TwoDigits((x % 3600) \div 60)
            /\ x = 0 => fmt.text = "0s"
            /\ x = 59 => fmt.text = "59s"
            /\ x = 60 => fmt.text = "00:01"
            /\ x = 90000 => fmt.text = "1 day, 01:00"
            /\ x = 176400 => fmt.text = "2 days, 01:00"

\* C8's case: an uptime of exactly one day and some hours was formatted.
C8_Witness ==
    /\ fmt.called
    /\ fmt.seconds = 90000
    /\ fmt.text = "1 day, 01:00"

-----------------------------------------------------------------------------
(* sample_tasks, the EnumProcesses branch.                                 *)

\* The operating system reports at most MaxProcs processes.
MaxProcs == 4200

\* The process counts drawn are those within MaxNear of 0, of a buffer size
\* or of MaxProcs.
MaxNear == 3

\* std::vector<DWORD> process_ids(1024)
InitialProcessIds == 1024

\* sizeof(DWORD)
SizeofDword == 4

Min(a, b) == IF a < b THEN a ELSE b

\* The numbers of processes the operating system may report at a call.
ProcCounts ==
    {n \in 0 .. MaxProcs :
        \/ n <= MaxNear
        \/ n >= MaxProcs - MaxNear
        \/ \E j \in 0 .. 2 :
            /\ n >= InitialProcessIds * 2 ^ j - MaxNear
            /\ n <= InitialProcessIds * 2 ^ j + MaxNear}

\* count <= process_ids.size(): a full buffer is taken for a complete list.
BufferHoldsAllOrFull(count, size) == count <= size

\* count < process_ids.size()
BufferHoldsAll(count, size) == count < size

\* win.pc is "call" before each EnumProcesses call of the loop and "done"
\* after a return.  win.fills counts the calls that filled the buffer and
\* win.last records the outcome of the last call and the number of processes
\* there were at that call.  The buffers stay far below 2^32 bytes, where the
\* cast of the byte size to DWORD changes nothing.
WinInit ==
    /\ win = [pc |-> "call", size |-> InitialProcessIds, bytes_returned |-> 0,
              summary |-> NoTaskSummary, fills |-> 0,
              last |-> [ok |-> TRUE, n |-> 0]]
    /\ usage = Unused /\ cpu = Unused /\ mem = Unused
    /\ tasks = Unused /\ fmt = Unused /\ main = Unused

\* EnumProcesses fails: return summary, still invalid.
EnumFails ==
    /\ win.pc = "call"
    /\ \E n \in ProcCounts :
        win' = [win EXCEPT !.pc = "done", !.last = [ok |-> FALSE, n |-> n]]
    /\ UNCHANGED <<usage, cpu, mem, tasks, fmt, main>>

\* EnumProcesses succeeds with n processes running: it stores as many
\* identifiers as the buffer of cb bytes holds.
EnumSucceeds ==
    /\ win.pc = "call"
    /\ \E n \in ProcCounts :
        LET cb == win.size * SizeofDword
            bytes_returned == Min(n * SizeofDword, cb)
            count == bytes_returned \div SizeofDword
        IN  IF BufferHoldsAll(count, win.size)
            THEN win' = [win EXCEPT !.pc = "done",
                                    !.bytes_returned = bytes_returned,
                                    !.summary = TaskSummary(count, TRUE),
                                    !.last = [ok |-> TRUE, n |-> n]]
            ELSE win' = [win EXCEPT !.bytes_returned = bytes_returned,
                                    !.size = win.size * 2,
                                    !.fills = @ + 1,
                                    !.last = [ok |-> TRUE, n |-> n]]
    /\ UNCHANGED <<usage, cpu, mem, tasks, fmt, main>>

WinNext == EnumFails \/ EnumSucceeds

SpecWin == WinInit /\ [][WinNext]_vars

\* The loop of sample_tasks makes its next call as long as it has not returned.
SpecWinFair == SpecWin /\ WF_vars(WinNext)

\* The buffer holds 1024 identifiers, doubled once per call that filled it;
\* a valid result comes from a call that returned fewer identifiers than the
\* buffer holds and is the number of processes there were; a failed call
\* ends the function at once with an invalid result and total = 0.
WinTasksSafe ==
    /\ win.size = InitialProcessIds * 2 ^ win.fills
    /\ win.summary.valid =>
            /\ win.pc = "done" /\ win.last.ok
            /\ win.summary.total = win.last.n
            /\ win.summary.total < win.size
            /\ win.bytes_returned = win.summary.total * SizeofDword
    /\ ~win.last.ok => win.pc = "done" /\ win.summary = NoTaskSummary
    /\ (win.pc = "done" /\ ~win.summary.valid) => ~win.last.ok /\ win.summary.total = 0

\* C9: sample_tasks starts with 1024 identifiers and doubles the buffer after
\* every call that fills it, returns valid only from a call that returned
\* fewer identifiers than the buffer holds (never a truncated count), returns
\* invalid with total = 0 as soon as a call fails, and terminates when the
\* number of processes is bounded.
C9_DoublingRetry == []WinTasksSafe /\ <>(win.pc = "done")

\* C9's case: the buffer was filled twice and doubled twice, and the third
\* call returned the complete list.
C9_Witness ==
    /\ win.pc = "done" /\ win.summary.valid
    /\ win.fills = 2
    /\ win.size = 4 * InitialProcessIds
    /\ win.summary.total > 2 * InitialProcessIds

-----------------------------------------------------------------------------
(* sample_load_averages, uptime_seconds, format_memory_mib and the text of *)
(* the dashboard.                                                          *)

\* struct LoadAverages.  A load average is kept in hundredths.
LoadAverages(one, five, fifteen, valid) ==
    [one |-> one, five |-> five, fifteen |-> fifteen, valid |-> valid]

\* LoadAverages averages{}.
NoLoadAverages == LoadAverages(0, 0, 0, FALSE)

\* The number of values sample_load_averages asks getloadavg for.
LoadSamples == 3

\* LoadAverages sample_load_averages(): os.ret is what getloadavg returns and
\* os.loads what it stored.
sample_load_averages(os) ==
    IF os.ret = LoadSamples
    THEN LoadAverages(os.loads[1], os.loads[2], os.loads[3], TRUE)
    ELSE NoLoadAverages

\* std::uint64_t uptime_seconds(): the first field of /proc/uptime, read as a
\* double and truncated; 0 when the file does not open, and 0 when the field
\* does not start with a digit (the failed extraction stores 0.0).
uptime_seconds(file) ==
    IF ~file.open THEN 0
    ELSE IF file.tokens = <<>> THEN 0
    ELSE LET tok == Head(file.tokens)
         IN  DecimalValue(SubSeq(tok, 1, DigitPrefixLen(tok)))

\* num/den (den > 0) in fixed notation with one decimal, rounded to the
\* nearest tenth, ties to the even one.
Fixed1(num, den) ==
    LET a == IF num < 0 THEN 0 - num ELSE num
        q == (a * 10) \div den
        r == (a * 10) % den
        t == IF 2 * r > den \/ (2 * r = den /\ q % 2 = 1) THEN q + 1 ELSE q
    IN  (IF num < 0 THEN "-" ELSE "") \o Decimal(t \div 10) \o "." \o DigitChar(t % 10)

\* Hundredths in fixed notation with two decimals.
Fixed2(h) == Decimal(h \div 100) \o "." \o DigitChar((h % 100) \div 10) \o DigitChar(h % 10)

BytesPerMiB == 1048576

\* std::string format_memory_mib(std::uint64_t bytes)
format_memory_mib(bytes) == Fixed1(bytes, BytesPerMiB)

\* The load averages after "load average: ".
RenderLoads(loads) ==
    IF loads.valid
    THEN Fixed2(loads.one) \o ", " \o Fixed2(loads.five) \o ", " \o Fixed2(loads.fifteen)
    ELSE "N/A, N/A, N/A"

\* The Tasks line.
RenderTasks(t) ==
    IF t.valid
    THEN "Tasks: " \o Decimal(t.total) \o " total, 1 running, 0 sleeping, 0 stopped, 0 zombie"
    ELSE "Tasks: N/A"

\* The %Cpu(s) line: cpu_usage and 100.0 - cpu_usage.
RenderCpu(u) ==
    "%Cpu(s): " \o Fixed1(u.num, u.den) \o " us, "
        \o Fixed1(100 * u.den - u.num, u.den) \o " id"

\* The MiB Mem line.
RenderMemory(m) ==
    IF m.valid
    THEN LET used == IF m.total_bytes > m.available_bytes
                     THEN m.total_bytes - m.available_bytes ELSE 0
         IN  "MiB Mem : " \o format_memory_mib(m.total_bytes) \o " total, "
                \o format_memory_mib(used) \o " used, "
                \o format_memory_mib(m.available_bytes) \o " free"
    ELSE "MiB Mem : N/A"

\* What one cycle writes after clear_screen(): the uptime and the load
\* averages of the first line (the clock time before them is left out) and
\* the three lines under it.
Render(cpu_usage, memory, summary, loads, uptime) ==
    [up |-> format_uptime(uptime), load |-> RenderLoads(loads),
     tasks |-> RenderTasks(summary), cpu |-> RenderCpu(cpu_usage),
     mem |-> RenderMemory(memory)]

\* The terminal before the first cycle.
BlankScreen == [up |-> "", load |-> "", tasks |-> "", cpu |-> "", mem |-> ""]

-----------------------------------------------------------------------------
(* main.                                                                   *)

\* The loop of main is followed for MaxCycles cycles.
MaxCycles == 2

CpuDiagnostic == "Failed to read CPU statistics. Exiting."

\* The /proc/stat contents main may find: unopenable, a first line of
\* another label, and aggregate lines with different counters.
MainStatFiles ==
    {StatFile(FALSE, FALSE, <<>>),
     StatFile(TRUE, TRUE, <<<<"c", "p", "u", "0">>, <<"7">>, <<"7">>>>)}
    \cup {StatFile(TRUE, TRUE, <<CpuLabel>> \o StatFields(5, i, <<"1", "2">>, 0, <<"x">>)) :
            i \in {0, 1, 4}}

\* The /proc/meminfo contents main may find: unopenable, without MemTotal,
\* and with MemTotal and MemAvailable.
MainMemFiles ==
    {MemFile(FALSE, <<>>),
     MemFile(TRUE, <<MemFreeKey, <<"1">>, KbUnit>>),
     MemFile(TRUE, <<MemTotalKey, <<"3">>, KbUnit, MemAvailableKey, <<"1">>, KbUnit>>)}

\* The /proc listings main may find: one that throws, and one that does not.
MainProcDirs ==
    {[entries |-> <<>>, throws |-> TRUE, handled |-> 0],
     [entries |-> <<ProcEntry(<<"4", "2">>, TRUE), ProcEntry(<<"s", "e", "l", "f">>, TRUE)>>,
      throws |-> FALSE, handled |-> 2]}

\* What getloadavg may do: fail, or store three averages.
MainLoads == {[ret |-> 0 - 1, loads |-> <<0, 0, 0>>], [ret |-> 3, loads |-> <<152, 40, 5>>]}

\* The /proc/uptime contents main may find: unopenable, and two uptimes.
MainUptimeFiles ==
    {[open |-> FALSE, tokens |-> <<>>],
     [open |-> TRUE, tokens |-> <<<<"0", ".", "0", "4">>, <<"0", ".", "0", "0">>>>],
     [open |-> TRUE, tokens |-> <<<<"9", "0", "0", "0", "0", ".", "5", "1">>, <<"7">>>>]}

\* What the samplers of one cycle read.
CycleInputs ==
    [stat : MainStatFiles, meminfo : MainMemFiles, proc : MainProcDirs,
     loadavg : MainLoads, uptime : MainUptimeFiles]

NoInputs ==
    [stat |-> StatFile(FALSE, FALSE, <<>>), meminfo |-> MemFile(FALSE, <<>>),
     proc |-> [entries |-> <<>>, throws |-> TRUE, handled |-> 0],
     loadavg |-> [ret |-> 0 - 1, loads |-> <<0, 0, 0>>],
     uptime |-> [open |-> FALSE, tokens |-> <<>>]]

\* main.pc is "start" before the first sample_cpu, "loop" at the top of the
\* while loop and "exited" after a return.  previous_snapshot, exit_status,
\* stderr and screen are the program's; cpu_ok is what the last sample_cpu
\* returned.  frames counts the cycles rendered, samples lists the snapshots
\* sample_cpu has produced, calls lists the arguments of the calls
\* compute_cpu_usage has had, and inputs is what the samplers read last.
MainInit ==
    /\ main = [pc |-> "start", previous_snapshot |-> ZeroSnapshot, cpu_ok |-> FALSE,
               exit_status |-> 0, stderr |-> "", screen |-> BlankScreen,
               frames |-> 0, samples |-> <<>>, calls |-> <<>>, inputs |-> NoInputs]
    /\ usage = Unused /\ cpu = Unused /\ mem = Unused
    /\ tasks = Unused /\ fmt = Unused /\ win = Unused

\* std::cerr << "Failed to read CPU statistics. Exiting.\n"; return 1;
ExitOnCpuFailure(m) ==
    [m EXCEPT !.pc = "exited", !.cpu_ok = FALSE, !.exit_status = 1, !.stderr = CpuDiagnostic]

\* The first sample: CpuSnapshot previous_snapshot{}; if (!sample_cpu(...)) ...
Start ==
    /\ main.pc = "start"
    /\ \E file \in MainStatFiles :
        LET r == sample_cpu(file, main.previous_snapshot)
        IN  main' = IF ~r.ok
                    THEN [ExitOnCpuFailure(main) EXCEPT !.inputs.stat = file]
                    ELSE [main EXCEPT !.pc = "loop", !.cpu_ok = TRUE,
                                      !.previous_snapshot = r.snapshot,
                                      !.samples = <<r.snapshot>>,
                                      !.inputs.stat = file]
    /\ UNCHANGED <<usage, cpu, mem, tasks, fmt, win>>

\* The rest of a cycle once sample_cpu has succeeded, but previous_snapshot
\* is replaced only when the memory sample is valid.
RunCycleKeepingSnapshot(m, in, current_snapshot) ==
    LET cpu_usage == compute_cpu_usage(m.previous_snapshot, current_snapshot)
        memory == sample_memory(in.meminfo)
    IN  [m EXCEPT !.cpu_ok = TRUE,
                  !.calls = Append(@, [prev |-> m.previous_snapshot,
                                       curr |-> current_snapshot]),
                  !.previous_snapshot = IF memory.valid THEN current_snapshot ELSE @,
                  !.samples = Append(@, current_snapshot),
                  !.screen = Render(cpu_usage, memory, sample_tasks(in.proc),
                                    sample_load_averages(in.loadavg),
                                    uptime_seconds(in.uptime)),
                  !.frames = @ + 1,
                  !.inputs = in]

\* The rest of a cycle once sample_cpu has succeeded (samples and calls
\* record the snapshot and the call).
RunCycle(m, in, current_snapshot) ==
    LET cpu_usage == compute_cpu_usage(m.previous_snapshot, current_snapshot)
        previous_snapshot == current_snapshot
        memory == sample_memory(in.meminfo)
        summary == sample_tasks(in.proc)
        loads == sample_load_averages(in.loadavg)
        uptime == uptime_seconds(in.uptime)
    IN  [m EXCEPT !.cpu_ok = TRUE,
                  !.calls = Append(@, [prev |-> m.previous_snapshot,
                                       curr |-> current_snapshot]),
                  !.previous_snapshot = previous_snapshot,
                  !.samples = Append(@, current_snapshot),
                  !.screen = Render(cpu_usage, memory, summary, loads, uptime),
                  !.frames = @ + 1,
                  !.inputs = in]

\* A cycle that gives up, as for a CPU failure, when the memory sample is
\* invalid.
CycleStepStrict(m, in) ==
    LET r == sample_cpu(in.stat, ZeroSnapshot)
    IN  IF ~r.ok \/ ~sample_memory(in.meminfo).valid
        THEN [ExitOnCpuFailure(m) EXCEPT !.inputs = in, !.cpu_ok = r.ok]
        ELSE RunCycle(m, in, r.snapshot)

\* One pass through the body of while (true), after the sleep.
CycleStep(m, in) ==
    LET r == sample_cpu(in.stat, ZeroSnapshot)
    IN  IF ~r.ok
        THEN [ExitOnCpuFailure(m) EXCEPT !.inputs = in]
        ELSE RunCycle(m, in, r.snapshot)

Cycle ==
    /\ main.pc = "loop"
    /\ main.frames < MaxCycles
    /\ \E in \in CycleInputs : main' = CycleStep(main, in)
    /\ UNCHANGED <<usage, cpu, mem, tasks, fmt, win>>

MainNext == Start \/ Cycle

SpecMain == MainInit /\ [][MainNext]_vars

\* What failed among the reads of the samplers other than sample_cpu.
MemoryReadFailed(in) == ~MemTotalFound(in.meminfo)

TasksReadFailed(in) == in.proc.throws

LoadsReadFailed(in) == in.loadavg.ret # LoadSamples

UptimeReadFailed(in) == ~in.uptime.open

\* C2: a failure of sample_cpu is the sole condition that ends the loop: the
\* step in which sample_cpu fails ends the process with the diagnostic and
\* exit status 1 and renders nothing, and a step in which sample_cpu
\* succeeds renders and stays in the loop whatever the other samplers did.
C2_CpuFailureAloneEndsLoop ==
    [][LET failed == ~sample_cpu(main'.inputs.stat, ZeroSnapshot).ok
       IN  /\ main'.cpu_ok = ~failed
           /\ main'.pc = IF failed THEN "exited" ELSE "loop"
           /\ failed =>
                /\ main'.exit_status = 1 /\ main'.stderr = CpuDiagnostic
                /\ main'.screen = main.screen /\ main'.frames = main.frames
           /\ ~failed =>
                /\ main'.exit_status = 0 /\ main'.stderr = ""
                /\ main.pc = "loop" =>
                    /\ main'.frames = main.frames + 1
                    /\ main'.screen.cpu # ""
                    /\ main'.screen.mem =
                         RenderMemory(sample_memory(main'.inputs.meminfo))]_vars

\* C2's case: the loop rendered a cycle in which the memory, task, load and
\* uptime reads all failed, and a later sample_cpu failure ended the process.
C2_Witness ==
    /\ main.pc = "exited" /\ main.exit_status = 1
    /\ main.frames = 1
    /\ main.screen.mem = "MiB Mem : N/A" /\ main.screen.tasks = "Tasks: N/A"
    /\ main.screen.load = "N/A, N/A, N/A" /\ main.screen.up = "0s"

\* C3: in every cycle rendered, each metric other than the CPU whose read
\* failed is shown as an explicit unavailable placeholder.
C3_FailedReadsShowPlaceholder ==
    main.frames > 0 =>
        /\ MemoryReadFailed(main.inputs) => main.screen.mem = "MiB Mem : N/A"
        /\ TasksReadFailed(main.inputs) => main.screen.tasks = "Tasks: N/A"
        /\ LoadsReadFailed(main.inputs) => main.screen.load = "N/A, N/A, N/A"
        /\ UptimeReadFailed(main.inputs) => main.screen.up = "N/A"

\* C10: the k-th call of compute_cpu_usage has prev = the k-th snapshot taken
\* and curr = the (k+1)-th, and previous_snapshot is the last snapshot taken:
\* it is replaced once per cycle, whatever the other samplers did.
C10_SnapshotsInOrder ==
    main.pc # "start" /\ main.samples # <<>> =>
        /\ Len(main.calls) = Len(main.samples) - 1
        /\ Len(main.calls) = main.frames
        /\ \A k \in 1 .. Len(main.calls) :
            main.calls[k] = [prev |-> main.samples[k], curr |-> main.samples[k + 1]]
        /\ main.previous_snapshot = main.samples[Len(main.samples)]

\* C10's case: two cycles ran with three different snapshots while the
\* memory read failed in the last one.
C10_Witness ==
    /\ main.pc = "loop" /\ main.frames = 2
    /\ main.samples[1] # main.samples[2] /\ main.samples[2] # main.samples[3]
    /\ main.samples[1] # main.samples[3]
    /\ main.screen.mem = "MiB Mem : N/A"

====
